---- MODULE Spec2Model ----
(***************************************************************************)
(* Edge agent of vision_analysis_pro: the acquisition loop (EdgeAgent.run), *)
(* the reporting worker (EdgeAgent._reporter_worker), the HTTP reporter    *)
(* with retry/backoff (HTTPReporter) and the offline cache (CacheManager). *)
(* Time is a discrete clock `now` that counts milliseconds.                 *)
(***************************************************************************)
EXTENDS Integers, Sequences, FiniteSets, TLC

\* ------------------------------------------------------------------ bounds
NumFrames == 2          \* frames the source can deliver in one run
MaxTime == 1            \* last value of the clock
MaxBatch == 2           \* largest batch_size drawn in Init
MaxRetry == 1           \* largest retry_max drawn in Init
MaxDetections == 1      \* most detections predict returns for one frame
BatchInterval == 1      \* reporter.batch_interval
MaxFlushInterval == 1   \* largest cache.flush_interval drawn in Init
MaxAge == 0             \* cache.max_age_hours, as milliseconds
MaxEntries == 1         \* cache.max_entries
MaxRetrySend == 2       \* largest retry_max of a stand-alone attempt sequence
MaxDelay == 2           \* largest retry_delay of a stand-alone attempt sequence
MaxBackoff == 3         \* largest retry_backoff of a stand-alone attempt sequence
MaxCacheTime == 2       \* last value of the clock of a cache used on its own
MaxAdds == 3            \* add() calls made on a cache used on its own
MaxBatchKey == 2        \* batch ids 0..MaxBatchKey of the payloads added to it
MaxLimit == 3           \* largest limit passed to get_pending
MaxImages == 4          \* most image files in the folder of a FolderSource
MaxSkip == 2            \* largest skip_frames of a FolderSource
MaxYield == 6           \* frames taken from the iterator of a FolderSource
MaxOpens == 2            \* open() calls made on one instance
MaxCloses == 2           \* close() calls made on one instance
MaxReads == 2            \* uses of one instance while it is open
MaxWireDetections == 1   \* detections of a result written to the cache
MaxWireResults == 1      \* results of a payload written to the cache
MaxWireAdds == 2         \* add() calls of the payload written to the cache

\* ------------------------------------------------------- program constants
DefaultRetryDelay == 1   \* ReporterConfig.retry_delay default
DefaultRetryBackoff == 2 \* ReporterConfig.retry_backoff default
RetryCeilingFactor == 3 \* flush_cache_sync: retry_max * 3

SUCCESS == "success"
FAILED == "failed"
CACHED == "cached"
PENDING == "pending"

\* answers of the endpoint to one POST: response classes and httpx errors
Responses == {"2xx", "4xx", "5xx", "timeout", "connect_error"}

MaxSeq == NumFrames + 1
Seqs == 1..MaxSeq

VARIABLES
    config,            \* EdgeAgentConfig fields the pipeline reads
    now,               \* wall clock (time.time / datetime.now)
    \* ---- EdgeAgent, main thread
    pc,                \* position of run()
    running,           \* _running
    stop_event,        \* _stop_event
    frame_count,       \* BaseSource._frame_count: frames read so far
    results_buffer,    \* run(): results_buffer
    last_report_time,  \* run(): last_report_time
    report_queue,      \* _report_queue contents
    unfinished,        \* Queue.unfinished_tasks
    stats,             \* _stats counters
    raised,            \* run() ends by re-raising an exception
    \* ---- reporting worker thread
    wpc,               \* position of _reporter_worker()
    payload,           \* payload taken from the queue
    last_flush_time,   \* _reporter_worker: last_flush_time
    current_time,      \* _reporter_worker: current_time
    entries,           \* flush_cache_sync: entries
    flush_idx,         \* flush_cache_sync: position in entries
    success_count,     \* flush_cache_sync: success_count
    \* ---- HTTPReporter / CacheManager
    is_connected,      \* BaseReporter._is_connected
    cache_open,        \* CacheManager._is_open
    store,             \* rows of table cache_entries
    next_id,           \* AUTOINCREMENT counter of cache_entries.id
    \* ---- history (not program state)
    enqueued,          \* payloads put on the queue, in order
    kept,              \* results appended to results_buffer, in order
    handed,            \* payloads passed to report_sync, in order
    outcome,           \* status report_sync returned, per payload
    delivered,         \* payloads some POST of which was answered 2xx
    rejected,          \* payloads some POST of which was answered 4xx
    resent,            \* payloads POSTed again after a 4xx answer
    fate,              \* how a payload left the store, per payload
    last_send,         \* input and result of a stand-alone attempt sequence
    \* ---- components used on their own
    source,            \* a FolderSource and the frames its iterator yielded
    cache_call,        \* the last CacheManager call: arguments, store, result
    loaded             \* the last EdgeAgentConfig.load: inputs and result

mainVars == <<pc, running, stop_event, frame_count, results_buffer,
              last_report_time, report_queue, unfinished, stats, raised>>
workerVars == <<wpc, payload, last_flush_time, current_time, entries,
                flush_idx, success_count>>
reporterVars == <<is_connected, cache_open, store, next_id>>
historyVars == <<enqueued, kept, handed, outcome, delivered, rejected,
                 resent, fate, last_send>>
unitVars == <<source, cache_call, loaded>>
vars == <<config, now, mainVars, workerVars, reporterVars, historyVars,
          unitVars>>

\* ------------------------------------------------------------ ReportPayload
device_id == "edge"

\* ReportPayload.__post_init__: f"{device_id}-{int(report_time * 1000)}"
BatchId(device, report_time) == <<device, report_time>>

\* ReportPayload(device_id, results): seq is the identity of the object
ReportPayload(seq, results, t) ==
    [seq |-> seq, batch_id |-> BatchId(device_id, t), report_time |-> t,
     results |-> results, retry_count |-> 0]

NoPayload == [seq |-> 0, batch_id |-> <<>>, report_time |-> 0,
              results |-> <<>>, retry_count |-> 0]

\* ------------------------------------------------------------ HTTPReporter
\* faulty variant: sleeps after the last attempt as well
HasRetryLeftInclusive(attempt) == attempt <= config.retry_max

\* _send_with_retry_sync: "if attempt < self.config.retry_max" before sleeping
HasRetryLeft(attempt) == attempt < config.retry_max

\* _send_with_retry_sync: "delay *= self.config.retry_backoff"
NextDelay(delay) == delay * config.retry_backoff

\* _send_with_retry_sync: a 4xx answer ends the sequence at once
IsClientError(resp) == resp = "4xx"

\* One pass of "for attempt in range(retry_max + 1)"; rs[k] is the endpoint's
\* answer to the k-th POST. Yields the status, the POSTs made and the sleeps.
RECURSIVE SendLoop(_, _, _, _)
SendLoop(rs, attempt, delay, sleeps) ==
    IF attempt >= config.retry_max + 1
    THEN [status |-> FAILED, attempts |-> attempt, sleeps |-> sleeps]
    ELSE IF rs[attempt + 1] = "2xx"
    THEN [status |-> SUCCESS, attempts |-> attempt + 1, sleeps |-> sleeps]
    ELSE IF IsClientError(rs[attempt + 1])
    THEN [status |-> FAILED, attempts |-> attempt + 1, sleeps |-> sleeps]
    ELSE IF HasRetryLeft(attempt)
    THEN SendLoop(rs, attempt + 1, NextDelay(delay), Append(sleeps, delay))
    ELSE SendLoop(rs, attempt + 1, delay, sleeps)

\* HTTPReporter._send_with_retry_sync(payload) against the answers rs;
\* without a client ("if self._sync_client is None") nothing is sent
SendWithRetrySync(rs) ==
    IF ~is_connected
    THEN [status |-> FAILED, attempts |-> 0, sleeps |-> <<>>]
    ELSE SendLoop(rs, 0, config.retry_delay, <<>>)

\* the answers an endpoint can give to the POSTs of one attempt sequence; no
\* POST follows a 2xx or 4xx answer, so the answers behind one repeat it
AnswerSeqs ==
    {rs \in [1..(config.retry_max + 1) -> Responses] :
        \A k \in 2..(config.retry_max + 1) :
            rs[k - 1] \in {"2xx", "4xx"} => rs[k] = rs[k - 1]}

\* ------------------------------------------------------------ CacheManager
Row(id, p, t) ==
    [id |-> id, batch_id |-> p.batch_id, payload |-> p, created_at |-> t,
     retry_count |-> p.retry_count]

\* faulty variant: a plain INSERT, the row of the same batch_id stays
CacheAddInsertOnly(rows, id, p, t) == rows \cup {Row(id, p, t)}

\* CacheManager.add: INSERT OR REPLACE on the UNIQUE batch_id column
CacheAdd(rows, id, p, t) ==
    {r \in rows : r.batch_id # p.batch_id} \cup {Row(id, p, t)}

\* faulty variant: ORDER BY created_at DESC
Newer(a, b) ==
    \/ a.created_at > b.created_at
    \/ a.created_at = b.created_at /\ a.id > b.id

\* ORDER BY created_at ASC (rows of equal created_at in rowid order)
Older(a, b) ==
    \/ a.created_at < b.created_at
    \/ a.created_at = b.created_at /\ a.id < b.id

RECURSIVE OrderByCreatedAt(_)
OrderByCreatedAt(rows) ==
    IF rows = {} THEN <<>>
    ELSE LET first == CHOOSE r \in rows : \A o \in rows \ {r} : Older(r, o)
         IN <<first>> \o OrderByCreatedAt(rows \ {first})

\* LIMIT n of SQLite: a negative n means no limit
Limit(s, n) == IF n < 0 \/ n >= Len(s) THEN s ELSE SubSeq(s, 1, n)

Range(s) == {s[i] : i \in 1..Len(s)}

\* CacheManager.get_pending(limit)
GetPending(rows, limit) == Limit(OrderByCreatedAt(rows), limit)

\* CacheManager.remove(entry_id)
CacheRemove(rows, id) == {r \in rows : r.id # id}

\* CacheManager.update_retry(entry_id, error)
UpdateRetry(rows, id) ==
    {IF r.id = id THEN [r EXCEPT !.retry_count = @ + 1] ELSE r : r \in rows}

\* CacheManager.cleanup_expired at time t
CleanupExpired(rows, t) == {r \in rows : ~(r.created_at < t - MaxAge)}

\* faulty variant: the oldest rows are kept, the newest deleted
CleanupOverflowKeepOldest(rows) ==
    LET current_count == Cardinality(rows) IN
    IF current_count <= MaxEntries THEN rows
    ELSE Range(Limit(OrderByCreatedAt(rows), MaxEntries))

\* CacheManager.cleanup_overflow
CleanupOverflow(rows) ==
    LET current_count == Cardinality(rows) IN
    IF current_count <= MaxEntries THEN rows
    ELSE LET to_remove == current_count - MaxEntries
         IN rows \ Range(Limit(OrderByCreatedAt(rows), to_remove))

\* CacheManager.cleanup: expired entries first, then overflow
CacheCleanup(rows, t) == CleanupOverflow(CleanupExpired(rows, t))

\* faulty variant: the ceiling is compared strictly
RetriedTooOftenStrict(entry) ==
    entry.retry_count > config.retry_max * RetryCeilingFactor

\* flush_cache_sync: "if entry.retry_count >= self.config.retry_max * 3"
RetriedTooOften(entry) ==
    entry.retry_count >= config.retry_max * RetryCeilingFactor

\* ------------------------------------------------------------------- Init
InitState ==
    /\ now = 0
    /\ pc = "idle" /\ running = FALSE /\ stop_event = FALSE
    /\ frame_count = 0 /\ results_buffer = <<>> /\ last_report_time = 0
    /\ report_queue = <<>> /\ unfinished = 0
    /\ stats = [frames_processed |-> 0, detections_total |-> 0,
                reports_sent |-> 0, reports_failed |-> 0, reports_cached |-> 0]
    /\ raised = FALSE
    /\ wpc = "off" /\ payload = NoPayload /\ last_flush_time = 0
    /\ current_time = 0 /\ entries = <<>> /\ flush_idx = 0 /\ success_count = 0
    /\ is_connected = FALSE /\ cache_open = FALSE /\ store = {} /\ next_id = 1
    /\ enqueued = <<>> /\ kept = <<>> /\ handed = <<>>
    /\ outcome = [q \in Seqs |-> PENDING]
    /\ delivered = {} /\ rejected = {} /\ resent = {}
    /\ fate = [q \in Seqs |-> "none"]
    /\ last_send = [rs |-> <<>>, status |-> PENDING, attempts |-> 0,
                    sleeps |-> <<>>, connected |-> FALSE]

\* the components used on their own are not in use
NoSource == [is_open |-> FALSE]
NoCall == [op |-> "none"]
NoLoad == [done |-> FALSE]

UnitIdle == source = NoSource /\ cache_call = NoCall /\ loaded = NoLoad

\* configurations of the agent runs; confidence, iou and timeout in
\* hundredths, the two paths by whether they exist
AgentConfigs ==
    [batch_size : 0..MaxBatch,
     retry_max : -1..MaxRetry,
     retry_delay : {DefaultRetryDelay},
     retry_backoff : {DefaultRetryBackoff},
     report_only_detections : BOOLEAN,
     cache_enabled : BOOLEAN,
     flush_interval : 0..MaxFlushInterval,
     confidence : {50, 150},
     iou : {50, 150},
     model_exists : BOOLEAN,
     source_exists : BOOLEAN,
     timeout : {0, 3000}]

Init == InitState /\ UnitIdle /\ config \in AgentConfigs

\* EdgeAgentConfig.validate(): the errors it reports
Validate(cfg) ==
    {e \in {"confidence", "iou", "model_path", "source_path", "retry_max",
            "timeout"} :
        \/ e = "confidence" /\ ~(0 <= cfg.confidence /\ cfg.confidence <= 100)
        \/ e = "iou" /\ ~(0 <= cfg.iou /\ cfg.iou <= 100)
        \/ e = "model_path" /\ ~cfg.model_exists
        \/ e = "source_path" /\ ~cfg.source_exists
        \/ e = "retry_max" /\ cfg.retry_max < 0
        \/ e = "timeout" /\ cfg.timeout <= 0}

\* faulty variant: run() goes on whatever validate() reported
CanStartAlways(errors) == TRUE

\* run(): "if errors: ... raise ValueError"
CanStart(errors) == errors = {}

\* --------------------------------------------------------- EdgeAgent.run()
\* run() up to "with source:": validation passed, the engine is created, the
\* worker thread is started, the source is opened.
Run ==
    /\ pc = "idle" /\ ~running
    /\ CanStart(Validate(config))
    /\ running' = TRUE
    /\ stop_event' = FALSE
    /\ wpc' = "start"
    /\ results_buffer' = <<>>
    /\ last_report_time' = now
    /\ pc' = "iter"
    /\ UNCHANGED <<unitVars, config, now, frame_count, report_queue, unfinished, stats,
                   raised, payload, last_flush_time, current_time, entries,
                   flush_idx, success_count, reporterVars, historyVars>>

\* run() with a configuration validate() rejects: ValueError is raised before
\* anything is started
RunInvalid ==
    /\ pc = "idle" /\ ~running
    /\ ~CanStart(Validate(config))
    /\ raised' = TRUE
    /\ pc' = "invalid"
    /\ UNCHANGED <<unitVars, config, now, running, stop_event, frame_count,
                   results_buffer, last_report_time, report_queue, unfinished,
                   stats, workerVars, reporterVars, historyVars>>

\* "for frame in source": read_frame returned None, the iteration ends
SourceExhausted ==
    /\ pc = "iter" /\ frame_count = NumFrames
    /\ pc' = "final"
    /\ UNCHANGED <<unitVars, config, now, running, stop_event, frame_count,
                   results_buffer, last_report_time, report_queue, unfinished,
                   stats, raised, workerVars, reporterVars, historyVars>>

\* faulty variant: a result without detections is kept
DroppedNever(result) == FALSE

\* _process_frame: None when report_only_detections drops the result
Dropped(result) == config.report_only_detections /\ result.dets = 0

\* faulty variant: the size trigger is compared strictly
ShouldReportStrict(buf) ==
    \/ Len(buf) > config.batch_size
    \/ (buf # <<>> /\ now - last_report_time >= BatchInterval)

\* run(): should_report
ShouldReport(buf) ==
    \/ Len(buf) >= config.batch_size
    \/ (buf # <<>> /\ now - last_report_time >= BatchInterval)

\* the reason ShouldReport held, kept with the payload in the history
Trigger(buf) == IF Len(buf) >= config.batch_size THEN "size" ELSE "time"

\* faulty variant: the queue holds one payload and put blocks while it is full
PutBounded(results, why) ==
    LET p == ReportPayload(Len(enqueued) + 1, results, now) IN
    /\ Len(report_queue) < 1
    /\ report_queue' = Append(report_queue, p)
    /\ unfinished' = unfinished + 1
    /\ enqueued' = Append(enqueued, [payload |-> p, why |-> why])

\* faulty variant: the payload is put at the head of the queue
PutFront(results, why) ==
    LET p == ReportPayload(Len(enqueued) + 1, results, now) IN
    /\ report_queue' = <<p>> \o report_queue
    /\ unfinished' = unfinished + 1
    /\ enqueued' = Append(enqueued, [payload |-> p, why |-> why])

\* _report_queue.put(ReportPayload(device_id, results)), and its record
Put(results, why) ==
    LET p == ReportPayload(Len(enqueued) + 1, results, now) IN
    /\ report_queue' = Append(report_queue, p)
    /\ unfinished' = unfinished + 1
    /\ enqueued' = Append(enqueued, [payload |-> p, why |-> why])

\* run(): results_buffer after a flush ("results_buffer.clear()")
Cleared(buf) == <<>>

\* the source yields its next frame and the body of the main loop runs:
\* stop check, _process_frame, accumulation and the batch flush
LoopBody ==
    /\ pc = "iter" /\ frame_count < NumFrames
    /\ frame_count' = frame_count + 1
    /\ IF stop_event
       THEN /\ pc' = "final"
            /\ UNCHANGED <<results_buffer, last_report_time, report_queue,
                           unfinished, stats, enqueued, kept>>
       ELSE \E n \in 0..MaxDetections :
            LET result == [frame_id |-> frame_count + 1, dets |-> n]
                buf == IF Dropped(result) THEN results_buffer
                       ELSE Append(results_buffer, result)
            IN /\ stats' = [stats EXCEPT !.frames_processed = @ + 1,
                                         !.detections_total = @ + n]
               /\ kept' = IF Dropped(result) THEN kept ELSE Append(kept, result)
               /\ IF ShouldReport(buf)
                  THEN /\ Put(buf, Trigger(buf))
                       /\ results_buffer' = Cleared(buf)
                       /\ last_report_time' = now
                  ELSE /\ results_buffer' = buf
                       /\ UNCHANGED <<last_report_time, report_queue,
                                      unfinished, enqueued>>
               /\ pc' = "iter"
    /\ UNCHANGED <<unitVars, config, now, running, stop_event, raised, workerVars,
                   reporterVars, handed, outcome, delivered, rejected, resent,
                   fate, last_send>>

\* the source yields a frame and _run_inference raises: the source is
\* closed, run() goes to its finally
InferenceError ==
    /\ pc = "iter" /\ frame_count < NumFrames /\ ~stop_event
    /\ frame_count' = frame_count + 1
    /\ raised' = TRUE
    /\ pc' = "cleanup"
    /\ UNCHANGED <<unitVars, config, now, running, stop_event,
                   results_buffer, last_report_time, report_queue, unfinished,
                   stats, workerVars, reporterVars, historyVars>>

\* faulty variant: a single remaining result is not flushed
HasRemainingSeveral(buf) == Len(buf) > 1

\* run(): "if results_buffer:" after the loop
HasRemaining(buf) == buf # <<>>

\* after the loop: the remaining results become the final payload
FinalFlush ==
    /\ pc = "final"
    /\ IF HasRemaining(results_buffer)
       THEN Put(results_buffer, "final")
       ELSE UNCHANGED <<report_queue, unfinished, enqueued>>
    /\ pc' = "cleanup"
    /\ UNCHANGED <<unitVars, config, now, running, stop_event, frame_count,
                   results_buffer, last_report_time, stats, raised,
                   workerVars, reporterVars, kept, handed, outcome, delivered,
                   rejected, resent, fate, last_send>>

\* _cleanup: "if not self._report_queue.empty()"
MustJoinQueue == report_queue # <<>>

CleanupCheck ==
    /\ pc = "cleanup"
    /\ pc' = IF MustJoinQueue THEN "join" ELSE "stop_worker"
    /\ UNCHANGED <<unitVars, config, now, running, stop_event, frame_count,
                   results_buffer, last_report_time, report_queue, unfinished,
                   stats, raised, workerVars, reporterVars, historyVars>>

\* _cleanup: _report_queue.join() returns once every put has its task_done
QueueJoin ==
    /\ pc = "join" /\ unfinished = 0
    /\ pc' = "stop_worker"
    /\ UNCHANGED <<unitVars, config, now, running, stop_event, frame_count,
                   results_buffer, last_report_time, report_queue, unfinished,
                   stats, raised, workerVars, reporterVars, historyVars>>

\* _cleanup: _stop_event.set()
CleanupStop ==
    /\ pc = "stop_worker"
    /\ stop_event' = TRUE
    /\ pc' = "thread_join"
    /\ UNCHANGED <<unitVars, config, now, running, frame_count, results_buffer,
                   last_report_time, report_queue, unfinished, stats, raised,
                   workerVars, reporterVars, historyVars>>

\* _cleanup: _reporter_thread.join(timeout=5.0) returns (the thread ended or
\* the timeout passed), then _running = False
ThreadJoin ==
    /\ pc = "thread_join"
    /\ running' = FALSE
    /\ pc' = "done"
    /\ UNCHANGED <<unitVars, config, now, stop_event, frame_count, results_buffer,
                   last_report_time, report_queue, unfinished, stats, raised,
                   workerVars, reporterVars, historyVars>>

\* faulty variant: the flag is set whether or not the agent is running
StopAlways ==
    /\ stop_event' = TRUE
    /\ UNCHANGED <<unitVars, config, now, pc, running, frame_count,
                   results_buffer, last_report_time, report_queue, unfinished,
                   stats, raised, workerVars, reporterVars, historyVars>>

\* EdgeAgent.stop(), also called by the SIGINT/SIGTERM handler
Stop ==
    /\ IF ~running THEN UNCHANGED stop_event ELSE stop_event' = TRUE
    /\ UNCHANGED <<unitVars, config, now, pc, running, frame_count, results_buffer,
                   last_report_time, report_queue, unfinished, stats, raised,
                   workerVars, reporterVars, historyVars>>

\* the clock advances
Tick ==
    /\ now < MaxTime
    /\ now' = now + 1
    /\ UNCHANGED <<unitVars, config, mainVars, workerVars, reporterVars, historyVars>>

\* ------------------------------------------- EdgeAgent._reporter_worker()
\* history of one attempt sequence r made for payload p against answers rs
Sent(p, rs, r) ==
    /\ resent' = IF r.attempts > 0 /\ p.seq \in rejected
                 THEN resent \cup {p.seq} ELSE resent
    /\ delivered' = IF r.attempts > 0 /\ rs[r.attempts] = "2xx"
                    THEN delivered \cup {p.seq} ELSE delivered
    /\ rejected' = IF r.attempts > 0 /\ rs[r.attempts] = "4xx"
                   THEN rejected \cup {p.seq} ELSE rejected

\* history of rows leaving the store
Gone(rows, why, f) ==
    [q \in Seqs |-> IF \E r \in rows : r.payload.seq = q THEN why ELSE f[q]]

\* "with reporter:" connects (the cache is opened when configured), then
\* last_flush_time = time.time()
WorkerStart ==
    /\ wpc = "start"
    /\ is_connected' = TRUE
    /\ cache_open' = config.cache_enabled
    /\ last_flush_time' = now
    /\ wpc' = "loop"
    /\ UNCHANGED <<unitVars, config, now, mainVars, payload, current_time, entries,
                   flush_idx, success_count, store, next_id, historyVars>>

\* "while not self._stop_event.is_set()"; on exit the reporter disconnects
WorkerLoop ==
    /\ wpc = "loop"
    /\ IF stop_event
       THEN /\ wpc' = "exited"
            /\ is_connected' = FALSE
            /\ cache_open' = FALSE
       ELSE /\ wpc' = "get"
            /\ UNCHANGED <<is_connected, cache_open>>
    /\ UNCHANGED <<unitVars, config, now, mainVars, payload, last_flush_time,
                   current_time, entries, flush_idx, success_count, store,
                   next_id, historyVars>>

\* _report_queue.get(timeout=1.0) returns a payload
WorkerGet ==
    /\ wpc = "get" /\ report_queue # <<>>
    /\ payload' = Head(report_queue)
    /\ report_queue' = Tail(report_queue)
    /\ handed' = Append(handed, [seq |-> Head(report_queue).seq,
                                 told_to_stop |-> stop_event])
    /\ wpc' = "report"
    /\ UNCHANGED <<unitVars, config, now, pc, running, stop_event, frame_count,
                   results_buffer, last_report_time, unfinished, stats, raised,
                   last_flush_time, current_time, entries, flush_idx,
                   success_count, reporterVars, enqueued, kept, outcome,
                   delivered, rejected, resent, fate, last_send>>

\* _report_queue.get(timeout=1.0) raises Empty
WorkerGetEmpty ==
    /\ wpc = "get" /\ report_queue = <<>>
    /\ wpc' = "flushcheck"
    /\ UNCHANGED <<unitVars, config, now, mainVars, payload, last_flush_time,
                   current_time, entries, flush_idx, success_count,
                   reporterVars, historyVars>>

\* faulty variant: the cache is tried for the wrong status
ShouldCacheWrongStatus(status) == status = CACHED /\ config.cache_enabled

\* report_sync: "if status == ReportStatus.FAILED and self._cache"
ShouldCache(status) == status = FAILED /\ config.cache_enabled

\* report_sync: the status returned after the attempt sequence gave `status`
\* and, when caching is tried, _cache.add succeeded (added) or raised
ReportSyncStatus(status, added) ==
    IF ShouldCache(status) THEN (IF added THEN CACHED ELSE status) ELSE status

\* the worker's counter for a status
StatsKey(status) ==
    IF status = SUCCESS THEN "reports_sent"
    ELSE IF status = CACHED THEN "reports_cached" ELSE "reports_failed"

\* reporter.report_sync(payload), the statistics and task_done()
WorkerReport ==
    /\ wpc = "report"
    /\ \E rs \in AnswerSeqs, add_ok \in BOOLEAN :
        LET r == SendWithRetrySync(rs)
            tries_add == is_connected /\ ShouldCache(r.status)
            added == tries_add /\ cache_open /\ add_ok
            status == IF is_connected THEN ReportSyncStatus(r.status, added)
                      ELSE FAILED
            replaced == {x \in store : x.batch_id = payload.batch_id}
        IN /\ (~tries_add => add_ok)
           /\ Sent(payload, rs, r)
           /\ outcome' = [outcome EXCEPT ![payload.seq] = status]
           /\ IF added
              THEN /\ store' = CacheAdd(store, next_id, payload, now)
                   /\ next_id' = next_id + 1
                   /\ fate' = Gone(replaced, "replaced", fate)
              ELSE /\ UNCHANGED <<store, next_id>>
                   /\ fate' = IF tries_add
                              THEN [fate EXCEPT ![payload.seq] = "add_failed"]
                              ELSE fate
           /\ stats' = [stats EXCEPT ![StatsKey(status)] = @ + 1]
    /\ unfinished' = unfinished - 1
    /\ payload' = NoPayload
    /\ wpc' = "flushcheck"
    /\ UNCHANGED <<unitVars, config, now, pc, running, stop_event, frame_count,
                   results_buffer, last_report_time, report_queue, raised,
                   last_flush_time, current_time, entries, flush_idx,
                   success_count, is_connected, cache_open, enqueued, kept,
                   handed, last_send>>

\* faulty variant: the elapsed time is taken with the wrong sign
FlushDueReversed(t) == last_flush_time - t >= config.flush_interval

\* _reporter_worker: "if current_time - last_flush_time >= flush_interval"
FlushDue(t) == t - last_flush_time >= config.flush_interval

\* flush_cache_sync / cleanup_cache: "if not self._cache or not is_open"
CacheUsable == config.cache_enabled /\ cache_open

\* the periodic check; when due, flush_cache_sync starts with get_pending
WorkerFlushCheck ==
    /\ wpc = "flushcheck"
    /\ current_time' = IF FlushDue(now) THEN now ELSE current_time
    /\ IF FlushDue(now)
       THEN LET pending == IF CacheUsable
                           THEN GetPending(store, config.batch_size)
                           ELSE <<>>
            IN IF pending = <<>>
               THEN /\ wpc' = "cleanup_cache"
                    /\ UNCHANGED <<entries, flush_idx, success_count>>
               ELSE /\ wpc' = "flush"
                    /\ entries' = pending
                    /\ flush_idx' = 1
                    /\ success_count' = 0
       ELSE /\ wpc' = "loop"
            /\ UNCHANGED <<entries, flush_idx, success_count>>
    /\ UNCHANGED <<unitVars, config, now, mainVars, payload, last_flush_time,
                   reporterVars, historyVars>>

\* flush_cache_sync: the store after the re-delivery of `entry` gave `status`
FlushEntryStore(rows, entry, status) ==
    IF status = SUCCESS THEN CacheRemove(rows, entry.id)
    ELSE IF RetriedTooOften(entry)
    THEN CacheRemove(UpdateRetry(rows, entry.id), entry.id)
    ELSE UpdateRetry(rows, entry.id)

\* flush_cache_sync: one iteration of "for entry in entries"; after the last
\* one the worker adds the successes to reports_sent
FlushEntry ==
    /\ wpc = "flush" /\ flush_idx <= Len(entries)
    /\ \E rs \in AnswerSeqs :
        LET entry == entries[flush_idx]
            r == SendWithRetrySync(rs)
            count == IF r.status = SUCCESS THEN success_count + 1
                     ELSE success_count
            abandoned == {x \in store : x.id = entry.id /\ r.status # SUCCESS
                                        /\ RetriedTooOften(entry)}
        IN /\ Sent(entry.payload, rs, r)
           /\ store' = FlushEntryStore(store, entry, r.status)
           /\ fate' = Gone(abandoned, "abandoned", fate)
           /\ IF flush_idx = Len(entries)
              THEN /\ wpc' = "cleanup_cache"
                   /\ stats' = [stats EXCEPT !.reports_sent = @ + count]
                   /\ entries' = <<>> /\ flush_idx' = 0 /\ success_count' = 0
              ELSE /\ flush_idx' = flush_idx + 1
                   /\ success_count' = count
                   /\ UNCHANGED <<wpc, stats, entries>>
    /\ UNCHANGED <<unitVars, config, now, pc, running, stop_event, frame_count,
                   results_buffer, last_report_time, report_queue, unfinished,
                   raised, payload, last_flush_time, current_time,
                   is_connected, cache_open, next_id, enqueued, kept, handed,
                   outcome, last_send>>

\* reporter.cleanup_cache(), then last_flush_time = current_time
WorkerCleanupCache ==
    /\ wpc = "cleanup_cache"
    /\ IF CacheUsable
       THEN LET unexpired == CleanupExpired(store, now) IN
            /\ store' = CacheCleanup(store, now)
            /\ fate' = Gone(unexpired \ CleanupOverflow(unexpired), "overflow",
                            Gone(store \ unexpired, "expired", fate))
       ELSE UNCHANGED <<store, fate>>
    /\ last_flush_time' = current_time
    /\ wpc' = "loop"
    /\ UNCHANGED <<unitVars, config, now, mainVars, payload, current_time, entries,
                   flush_idx, success_count, is_connected, cache_open, next_id,
                   enqueued, kept, handed, outcome, delivered, rejected,
                   resent, last_send>>

\* ------------------------------------- one attempt sequence, on its own
\* configurations of a reporter used directly
RetryConfigs ==
    [batch_size : {1},
     retry_max : 0..MaxRetrySend,
     retry_delay : 1..MaxDelay,
     retry_backoff : 1..MaxBackoff,
     report_only_detections : {FALSE},
     cache_enabled : {FALSE},
     flush_interval : {0}]

InitRetry == InitState /\ UnitIdle /\ config \in RetryConfigs

\* HTTPReporter.connect() / disconnect() called by the reporter's user
Connect ==
    /\ is_connected' = ~is_connected
    /\ UNCHANGED <<unitVars, config, now, mainVars, workerVars, cache_open, store,
                   next_id, historyVars>>

\* _send_with_retry_sync(payload) called once; the answers and the result
\* are kept in last_send
SendOnce ==
    /\ \E rs \in AnswerSeqs :
        LET r == SendWithRetrySync(rs)
        IN last_send' = [rs |-> rs, status |-> r.status,
                         attempts |-> r.attempts, sleeps |-> r.sleeps,
                         connected |-> is_connected]
    /\ UNCHANGED <<unitVars, config, now, mainVars, workerVars, reporterVars, enqueued,
                   kept, handed, outcome, delivered, rejected, resent, fate>>

NextRetry == Connect \/ SendOnce

SpecRetry == InitRetry /\ [][NextRetry]_vars

\* ------------------------------------------- CacheManager, on its own
\* configuration of a component used on its own
UnitConfigs ==
    [batch_size : {1},
     retry_max : {0},
     retry_delay : {DefaultRetryDelay},
     retry_backoff : {DefaultRetryBackoff},
     report_only_detections : {FALSE},
     cache_enabled : {TRUE},
     flush_interval : {0}]

InitCache ==
    /\ InitState /\ UnitIdle
    /\ config \in UnitConfigs

\* a payload handed to add(): batch id key k, retry_count r, identity id
CachePayload(k, r, id) ==
    [seq |-> id, batch_id |-> BatchId(device_id, k), report_time |-> k,
     results |-> <<>>, retry_count |-> r]

\* CacheManager.open()
CacheOpen ==
    /\ ~cache_open
    /\ cache_open' = TRUE
    /\ UNCHANGED <<config, now, mainVars, workerVars, is_connected, store,
                   next_id, historyVars, unitVars>>

\* datetime.now() advances between two calls
CacheTick ==
    /\ now < MaxCacheTime
    /\ now' = now + 1
    /\ UNCHANGED <<config, mainVars, workerVars, reporterVars, historyVars,
                   unitVars>>

\* CacheManager.add(payload); RuntimeError when the cache is not open
CacheAddCall ==
    /\ next_id <= MaxAdds
    /\ \E k \in 0..MaxBatchKey, r \in 0..1 :
        LET p == CachePayload(k, r, next_id)
            rows == IF cache_open THEN CacheAdd(store, next_id, p, now)
                    ELSE store
        IN /\ store' = rows
           /\ cache_call' = [op |-> "add", open |-> cache_open, at |-> now,
                             payload |-> p, before |-> store, after |-> rows,
                             result |-> IF cache_open THEN next_id ELSE -1]
    /\ next_id' = IF cache_open THEN next_id + 1 ELSE next_id
    /\ UNCHANGED <<config, now, mainVars, workerVars, is_connected,
                   cache_open, historyVars, source, loaded>>

\* CacheManager.get_pending(limit); [] when the cache is not open
GetPendingCall ==
    /\ \E limit \in 0..MaxLimit :
        cache_call' = [op |-> "get_pending", open |-> cache_open, at |-> now,
                       limit |-> limit, before |-> store, after |-> store,
                       result |-> IF cache_open THEN GetPending(store, limit)
                                  ELSE <<>>]
    /\ UNCHANGED <<config, now, mainVars, workerVars, reporterVars,
                   historyVars, source, loaded>>

\* CacheManager.cleanup_overflow(); 0 when the cache is not open
CleanupOverflowCall ==
    /\ LET rows == IF cache_open THEN CleanupOverflow(store) ELSE store
       IN /\ store' = rows
          /\ cache_call' = [op |-> "cleanup_overflow", open |-> cache_open,
                            at |-> now, before |-> store, after |-> rows,
                            result |-> Cardinality(store \ rows)]
    /\ UNCHANGED <<config, now, mainVars, workerVars, is_connected,
                   cache_open, next_id, historyVars, source, loaded>>

NextCache ==
    \/ CacheOpen
    \/ CacheTick
    \/ CacheAddCall
    \/ GetPendingCall
    \/ CleanupOverflowCall

SpecCache == InitCache /\ [][NextCache]_vars

\* ------------------------------------------- FolderSource, on its own
\* folders of 1..MaxImages image files, each readable by cv2.imread or not
Folders ==
    UNION {[1..n -> BOOLEAN] : n \in 1..MaxImages}

\* FolderSource(config) for a folder and a SourceConfig
NewSource(files, loop, skip_frames) ==
    [is_open |-> FALSE, files |-> files, loop |-> loop,
     skip_frames |-> skip_frames, current_index |-> 0, frame_count |-> 0,
     yielded |-> <<>>, state |-> "created"]

InitSource ==
    /\ InitState /\ cache_call = NoCall /\ loaded = NoLoad
    /\ config \in UnitConfigs
    /\ source \in {NewSource(f, l, n) :
                    f \in Folders, l \in BOOLEAN, n \in 0..MaxSkip}

\* FolderSource.read_frame from index idx: unreadable files are passed over;
\* frame is the index of the image read, -1 for None
RECURSIVE ReadFrame(_, _)
ReadFrame(files, idx) ==
    IF idx >= Len(files) THEN [current_index |-> idx, frame |-> -1]
    ELSE IF files[idx + 1] THEN [current_index |-> idx + 1, frame |-> idx]
    ELSE ReadFrame(files, idx + 1)

\* faulty variant: the rewind leaves out the first image
FolderResetPastFirst(s) == [s EXCEPT !.current_index = 1, !.frame_count = 0]

\* FolderSource._reset
FolderReset(s) == [s EXCEPT !.current_index = 0, !.frame_count = 0]

\* faulty variant: the frames counted n+1, 2(n+1), ... are kept
KeepFrameLast(count, skip_frames) ==
    skip_frames > 0 => count % (skip_frames + 1) = 0

\* BaseSource.__iter__: the frame counted `count` is yielded
KeepFrame(count, skip_frames) ==
    skip_frames > 0 => (count - 1) % (skip_frames + 1) = 0

\* FolderSource.open()
SourceOpen ==
    /\ source.state = "created"
    /\ source' = [source EXCEPT !.is_open = TRUE, !.current_index = 0,
                                !.state = "open"]
    /\ UNCHANGED <<config, now, mainVars, workerVars, reporterVars,
                   historyVars, cache_call, loaded>>

\* BaseSource.__iter__: one pass of "while self._is_open"
SourceIterate ==
    /\ source.state = "open" /\ source.is_open
    /\ Len(source.yielded) < MaxYield
    /\ LET r == ReadFrame(source.files, source.current_index)
           read == [source EXCEPT !.current_index = r.current_index]
           count == source.frame_count + 1
       IN source' =
            IF r.frame = -1
            THEN IF source.loop THEN FolderReset(read)
                 ELSE [read EXCEPT !.state = "ended"]
            ELSE IF KeepFrame(count, source.skip_frames)
            THEN [read EXCEPT !.frame_count = count,
                              !.yielded = Append(@, r.frame)]
            ELSE [read EXCEPT !.frame_count = count]
    /\ UNCHANGED <<config, now, mainVars, workerVars, reporterVars,
                   historyVars, cache_call, loaded>>

NextSource == SourceOpen \/ SourceIterate

SpecSource == InitSource /\ [][NextSource]_vars

\* ---------------------------------------- EdgeAgentConfig.load, on its own
\* three keys: one read from the environment with a non-empty default, one
\* read from the environment with the default "", one not read from the
\* environment at all
ConfigKeys == {"device_id", "reporter.api_key", "reporter.retry_delay"}
EnvKeys == {"device_id", "reporter.api_key"}

Unset == "<unset>"     \* the key / variable is absent
Empty == ""
ConfigValues == {"a", "b"}

\* the defaults of the dataclasses and of from_dict's data.get(key, default)
DefaultOf(k) == IF k = "reporter.api_key" THEN Empty ELSE "<default>"

\* EdgeAgentConfig.from_dict(data): data.get(key, default) for every key
FromDict(data) ==
    [k \in ConfigKeys |-> IF data[k] = Unset THEN DefaultOf(k) ELSE data[k]]

\* EdgeAgentConfig.from_env(): "if env_val := os.getenv(...)" for the keys
\* that have a variable, then from_dict
FromEnv(env) ==
    FromDict([k \in ConfigKeys |->
                IF k \in EnvKeys /\ env[k] \notin {Unset, Empty}
                THEN env[k] ELSE Unset])

\* _config_to_dict(config): every key, with the value the object holds
ConfigToDict(cfg) == [k \in ConfigKeys |-> cfg[k]]

\* _deep_merge(base, override): a value of override that is neither None nor
\* "" replaces the one of base
DeepMerge(base, override) ==
    [k \in ConfigKeys |->
        IF override[k] \notin {Unset, Empty} THEN override[k] ELSE base[k]]

\* EdgeAgentConfig.load(config_path): file is what the YAML file sets
Load(file, env) ==
    LET base_data == ConfigToDict(FromDict(file))
        env_data == ConfigToDict(FromEnv(env))
    IN FromDict(DeepMerge(base_data, env_data))

InitConfig ==
    /\ InitState /\ source = NoSource /\ cache_call = NoCall
    /\ config \in UnitConfigs
    /\ loaded = NoLoad

\* one call of EdgeAgentConfig.load with a file and an environment
LoadCall ==
    /\ \E file \in [ConfigKeys -> ConfigValues \cup {Unset}],
          env \in [EnvKeys -> ConfigValues \cup {Unset, Empty}] :
        loaded' = [done |-> TRUE, file |-> file, env |-> env,
                   result |-> Load(file, env)]
    /\ UNCHANGED <<config, now, mainVars, workerVars, reporterVars,
                   historyVars, source, cache_call>>

NextConfig == LoadCall

SpecConfig == InitConfig /\ [][NextConfig]_vars

\* ------------------- cleanup_overflow beside another thread of the cache
\* cleanup_overflow takes the lock twice: inside count(), and then for the
\* DELETE of the `to_remove` oldest rows; another thread's add or remove can
\* take the lock in between. The cleaning thread's progress is kept in
\* cache_call.
InitOverflow == InitCache

\* cleanup_overflow up to the end of count(): returns 0 when the cache is
\* not open or holds at most max_entries rows, otherwise goes on with
\* to_remove
OverflowCount ==
    /\ cache_call.op # "counted"
    /\ LET current_count == IF cache_open THEN Cardinality(store) ELSE 0 IN
       cache_call' =
            IF current_count <= MaxEntries
            THEN [op |-> "cleanup_overflow", present |-> store,
                  after |-> store, to_remove |-> 0, result |-> 0]
            ELSE [op |-> "counted", present |-> store, after |-> store,
                  to_remove |-> current_count - MaxEntries, result |-> 0]
    /\ UNCHANGED <<config, now, mainVars, workerVars, reporterVars,
                   historyVars, source, loaded>>

\* cleanup_overflow under the lock: DELETE ... ORDER BY created_at ASC LIMIT
\* to_remove; `present` is the table the DELETE found
OverflowDelete ==
    /\ cache_call.op = "counted"
    /\ LET rows == store \ Range(Limit(OrderByCreatedAt(store),
                                       cache_call.to_remove))
       IN /\ store' = rows
          /\ cache_call' = [op |-> "cleanup_overflow", present |-> store,
                            after |-> rows,
                            to_remove |-> cache_call.to_remove,
                            result |-> Cardinality(store \ rows)]
    /\ UNCHANGED <<config, now, mainVars, workerVars, is_connected,
                   cache_open, next_id, historyVars, source, loaded>>

\* add(payload) by another thread
OtherAdd ==
    /\ cache_open /\ next_id <= MaxAdds
    /\ \E k \in 0..MaxBatchKey :
        store' = CacheAdd(store, next_id, CachePayload(k, 0, next_id), now)
    /\ next_id' = next_id + 1
    /\ UNCHANGED <<config, now, mainVars, workerVars, is_connected,
                   cache_open, historyVars, unitVars>>

\* remove(entry_id) by another thread
OtherRemove ==
    /\ cache_open
    /\ \E r \in store : store' = CacheRemove(store, r.id)
    /\ UNCHANGED <<config, now, mainVars, workerVars, is_connected,
                   cache_open, next_id, historyVars, unitVars>>

NextOverflow ==
    \/ CacheOpen
    \/ CacheTick
    \/ OtherAdd
    \/ OtherRemove
    \/ OverflowCount
    \/ OverflowDelete

SpecOverflow == InitOverflow /\ [][NextOverflow]_vars

\* ---------------------------- the payload through the cache, on its own
\* Detection
Detections ==
    [label : {"crack", "rust"}, confidence : {90}, bbox : {<<1, 2, 3, 4>>}]

\* InferenceResult.metadata, by the type of its keys
Metadatas == {[keys |-> "none"], [keys |-> "str"], [keys |-> "int"]}

\* the lists of at most n detections
DetectionLists(n) == UNION {[1..k -> Detections] : k \in 0..n}

\* InferenceResult
InferenceResults ==
    [frame_id : 1..2, timestamp : {0}, source_id : {"folder"},
     detections : DetectionLists(MaxWireDetections),
     inference_time_ms : {5}, metadata : Metadatas]

\* ReportPayload(device_id, results, report_time, batch_id) with
\* __post_init__: an empty batch_id is generated, status and retry_count
\* take their defaults
NewReportPayload(device, results, report_time, batch_id) ==
    [device_id |-> device, results |-> results, report_time |-> report_time,
     batch_id |-> IF batch_id = <<>> THEN BatchId(device, report_time)
                  ELSE batch_id,
     status |-> PENDING, retry_count |-> 0]

\* the payloads handed to add(): built with or without a batch_id of the
\* caller's, then possibly marked by a failed report
WirePayloads ==
    {[NewReportPayload(device_id, results, t, b)
        EXCEPT !.status = s, !.retry_count = r] :
        results \in UNION {[1..k -> InferenceResults] : k \in 0..MaxWireResults},
        t \in 0..1, b \in {<<>>, <<"given", 7>>},
        s \in {PENDING, FAILED}, r \in 0..1}

\* Detection.to_dict
DetectionToDict(d) ==
    [label |-> d.label, confidence |-> d.confidence, bbox |-> d.bbox]

\* InferenceResult.to_dict
ResultToDict(r) ==
    [frame_id |-> r.frame_id, timestamp |-> r.timestamp,
     source_id |-> r.source_id,
     detections |-> [i \in 1..Len(r.detections) |->
                        DetectionToDict(r.detections[i])],
     inference_time_ms |-> r.inference_time_ms, metadata |-> r.metadata]

\* ReportPayload.to_dict: status and retry_count are not written
PayloadToDict(p) ==
    [device_id |-> p.device_id, batch_id |-> p.batch_id,
     report_time |-> p.report_time,
     results |-> [i \in 1..Len(p.results) |-> ResultToDict(p.results[i])]]

\* json.loads(json.dumps(d)): the keys of every object come back as strings
JsonRoundTrip(d) ==
    [d EXCEPT !.results =
        [i \in 1..Len(d.results) |->
            [d.results[i] EXCEPT !.metadata =
                IF @.keys = "int" THEN [keys |-> "str"] ELSE @]]]

\* the row written by add()
WireRow(id, p, t) ==
    [id |-> id, batch_id |-> p.batch_id, device_id |-> p.device_id,
     payload_json |-> JsonRoundTrip(PayloadToDict(p)), created_at |-> t,
     retry_count |-> p.retry_count, last_error |-> ""]

\* Detection.from_dict
DetectionFromDict(data) ==
    [label |-> data.label, confidence |-> data.confidence, bbox |-> data.bbox]

\* _row_to_entry: the InferenceResult rebuilt from one element of "results"
ResultFromDict(r) ==
    [frame_id |-> r.frame_id, timestamp |-> r.timestamp,
     source_id |-> r.source_id,
     detections |-> [i \in 1..Len(r.detections) |->
                        DetectionFromDict(r.detections[i])],
     inference_time_ms |-> r.inference_time_ms, metadata |-> r.metadata]

\* faulty variant: the stored batch_id is not passed to the rebuilt payload,
\* which generates one
RowToEntryNewBatchId(row) ==
    LET data == row.payload_json IN
    [id |-> row.id,
     payload |-> NewReportPayload(
                    data.device_id,
                    [i \in 1..Len(data.results) |-> ResultFromDict(data.results[i])],
                    data.report_time, <<>>),
     created_at |-> row.created_at, retry_count |-> row.retry_count,
     last_error |-> row.last_error]

\* CacheManager._row_to_entry
RowToEntry(row) ==
    LET data == row.payload_json IN
    [id |-> row.id,
     payload |-> NewReportPayload(
                    data.device_id,
                    [i \in 1..Len(data.results) |-> ResultFromDict(data.results[i])],
                    data.report_time, data.batch_id),
     created_at |-> row.created_at, retry_count |-> row.retry_count,
     last_error |-> row.last_error]

\* an open cache and the payload about to be added
InitWire ==
    /\ now = 0
    /\ pc = "idle" /\ running = FALSE /\ stop_event = FALSE
    /\ frame_count = 0 /\ results_buffer = <<>> /\ last_report_time = 0
    /\ report_queue = <<>> /\ unfinished = 0
    /\ stats = [frames_processed |-> 0, detections_total |-> 0,
                reports_sent |-> 0, reports_failed |-> 0, reports_cached |-> 0]
    /\ raised = FALSE
    /\ wpc = "off" /\ payload \in WirePayloads /\ last_flush_time = 0
    /\ current_time = 0 /\ entries = <<>> /\ flush_idx = 0 /\ success_count = 0
    /\ is_connected = FALSE /\ cache_open = TRUE /\ store = {} /\ next_id = 1
    /\ enqueued = <<>> /\ kept = <<>> /\ handed = <<>>
    /\ outcome = [q \in Seqs |-> PENDING]
    /\ delivered = {} /\ rejected = {} /\ resent = {}
    /\ fate = [q \in Seqs |-> "none"]
    /\ last_send = [rs |-> <<>>, status |-> PENDING, attempts |-> 0,
                    sleeps |-> <<>>, connected |-> FALSE]
    /\ UnitIdle
    /\ config \in UnitConfigs

\* CacheManager.add(payload): INSERT OR REPLACE on batch_id
WireAdd ==
    /\ next_id <= MaxWireAdds
    /\ store' = {r \in store : r.batch_id # payload.batch_id}
                    \cup {WireRow(next_id, payload, now)}
    /\ next_id' = next_id + 1
    /\ cache_call' = [op |-> "add", id |-> next_id, found |-> FALSE,
                      entry |-> [id |-> 0]]
    /\ UNCHANGED <<config, now, mainVars, workerVars, is_connected,
                   cache_open, historyVars, source, loaded>>

\* CacheManager.get(entry_id): None when there is no such row
WireGet ==
    /\ \E id \in 1..MaxWireAdds :
        LET rows == {r \in store : r.id = id} IN
        cache_call' =
            [op |-> "get", id |-> id, found |-> rows # {},
             entry |-> IF rows = {} THEN [id |-> 0]
                       ELSE RowToEntry(CHOOSE r \in rows : TRUE)]
    /\ UNCHANGED <<config, now, mainVars, workerVars, reporterVars,
                   historyVars, source, loaded>>

NextWire == WireAdd \/ WireGet \/ CacheTick

SpecWire == InitWire /\ [][NextWire]_vars

\* ------------------------------- open/close of the Sources and the cache
\* VideoSource, FolderSource, CameraSource and CacheManager share one
\* lifecycle: open() acquires a resource (the VideoCapture in _cap, the
\* scanned _image_files, the sqlite connection in _conn) and sets _is_open,
\* close() releases it. The instance under test is kept in `source`.
Kinds == {"video", "folder", "camera", "cache"}

\* __init__ of the four classes
NewComponent(kind) ==
    [kind |-> kind, is_open |-> FALSE, held |-> FALSE, is_streaming |-> FALSE,
     reads |-> 0, opens |-> 0, closes |-> 0, close_raised |-> FALSE,
     last |-> "init"]

\* whether a failed open() of this kind can leave the resource object behind:
\* open() raises after cv2.VideoCapture(...) was assigned to _cap, or after
\* sqlite3.connect(...) was assigned to _conn; FolderSource raises before
\* _image_files is non-empty
LeftOnFailure(kind) == IF kind = "folder" THEN {FALSE} ELSE BOOLEAN

\* open(): returns at once when open; otherwise succeeds, or raises and
\* leaves `left` of the resource
OpenComponent(c, ok, left) ==
    IF c.is_open THEN [c EXCEPT !.last = "open"]
    ELSE IF ok
    THEN [c EXCEPT !.is_open = TRUE, !.held = TRUE,
                   !.is_streaming = (c.kind = "camera"),
                   !.opens = @ + 1, !.last = "open"]
    ELSE [c EXCEPT !.held = left, !.opens = @ + 1, !.last = "open_failed"]

\* faulty variant: the resource is released without the None test, so close()
\* of an instance without one raises before it clears the flags
CloseUnguarded(c) ==
    IF c.held \/ c.kind = "folder"
    THEN [c EXCEPT !.held = FALSE, !.is_open = FALSE, !.is_streaming = FALSE,
                   !.closes = @ + 1, !.last = "close"]
    ELSE [c EXCEPT !.close_raised = TRUE, !.closes = @ + 1, !.last = "close"]

\* close(): "if self._cap is not None: release; self._cap = None" (video,
\* camera, and _conn of the cache), "_image_files = []" (folder), then
\* _is_open = False; CameraSource also clears _is_streaming
CloseComponent(c) ==
    [c EXCEPT !.held = FALSE, !.is_open = FALSE, !.is_streaming = FALSE,
              !.closes = @ + 1, !.last = "close"]

InitClose ==
    /\ InitState
    /\ cache_call = NoCall /\ loaded = NoLoad
    /\ config \in UnitConfigs
    /\ \E kind \in Kinds : source = NewComponent(kind)

\* open() is called
ComponentOpen ==
    /\ source.opens < MaxOpens
    /\ \E ok \in BOOLEAN : \E left \in LeftOnFailure(source.kind) :
        source' = OpenComponent(source, ok, left)
    /\ UNCHANGED <<config, now, mainVars, workerVars, reporterVars,
                   historyVars, cache_call, loaded>>

\* the open instance is used: a frame is read, a row is written
ComponentUse ==
    /\ source.is_open /\ source.reads < MaxReads
    /\ source' = [source EXCEPT !.reads = @ + 1, !.last = "use"]
    /\ UNCHANGED <<config, now, mainVars, workerVars, reporterVars,
                   historyVars, cache_call, loaded>>

\* close() is called, in any state of the instance
ComponentClose ==
    /\ source.closes < MaxCloses
    /\ source' = CloseComponent(source)
    /\ UNCHANGED <<config, now, mainVars, workerVars, reporterVars,
                   historyVars, cache_call, loaded>>

NextClose == ComponentOpen \/ ComponentUse \/ ComponentClose

SpecClose == InitClose /\ [][NextClose]_vars

\* -------------------------------------------- the worker with a stored cache
\* the worker of a running agent whose cache file holds entries of an earlier
\* run, while the source yields no frame
FlushConfigs ==
    [batch_size : {MaxBatch},
     retry_max : 0..MaxRetry,
     retry_delay : {DefaultRetryDelay},
     retry_backoff : {DefaultRetryBackoff},
     report_only_detections : {FALSE},
     cache_enabled : {TRUE},
     flush_interval : 0..MaxFlushInterval]

\* the rows an earlier run left: n payloads of one result each, reported and
\* cached at n distinct instants before this run started
Leftover(n) ==
    {Row(i, ReportPayload(i, <<[frame_id |-> i, dets |-> 1]>>, i - n - 1),
         i - n - 1) : i \in 1..n}

InitFlush ==
    /\ UnitIdle
    /\ config \in FlushConfigs
    /\ now = 0
    /\ pc = "iter" /\ running = TRUE /\ stop_event = FALSE
    /\ frame_count = 0 /\ results_buffer = <<>> /\ last_report_time = 0
    /\ report_queue = <<>> /\ unfinished = 0
    /\ stats = [frames_processed |-> 0, detections_total |-> 0,
                reports_sent |-> 0, reports_failed |-> 0, reports_cached |-> 0]
    /\ raised = FALSE
    /\ wpc = "loop" /\ payload = NoPayload /\ last_flush_time = 0
    /\ current_time = 0 /\ entries = <<>> /\ flush_idx = 0 /\ success_count = 0
    /\ is_connected = TRUE /\ cache_open = TRUE
    /\ \E n \in 1..MaxBatch : store = Leftover(n) /\ next_id = n + 1
    /\ enqueued = <<>> /\ kept = <<>> /\ handed = <<>>
    /\ outcome = [q \in Seqs |-> PENDING]
    /\ delivered = {} /\ rejected = {} /\ resent = {}
    /\ fate = [q \in Seqs |-> "none"]
    /\ last_send = [rs |-> <<>>, status |-> PENDING, attempts |-> 0,
                    sleeps |-> <<>>, connected |-> FALSE]

NextFlush ==
    \/ WorkerLoop
    \/ WorkerGetEmpty
    \/ WorkerFlushCheck
    \/ FlushEntry
    \/ WorkerCleanupCache
    \/ Stop
    \/ Tick

SpecFlush == InitFlush /\ [][NextFlush]_vars

\* -------------------------------------------------------------------- Spec
Next ==
    \/ Run
    \/ RunInvalid
    \/ SourceExhausted
    \/ LoopBody
    \/ InferenceError
    \/ FinalFlush
    \/ CleanupCheck
    \/ QueueJoin
    \/ CleanupStop
    \/ ThreadJoin
    \/ Stop
    \/ Tick
    \/ WorkerStart
    \/ WorkerLoop
    \/ WorkerGet
    \/ WorkerGetEmpty
    \/ WorkerReport
    \/ WorkerFlushCheck
    \/ FlushEntry
    \/ WorkerCleanupCache

Spec == Init /\ [][Next]_vars

\* the steps of the thread that runs run()
MainNext ==
    \/ Run
    \/ RunInvalid
    \/ SourceExhausted
    \/ LoopBody
    \/ InferenceError
    \/ FinalFlush
    \/ CleanupCheck
    \/ QueueJoin
    \/ CleanupStop
    \/ ThreadJoin

\* the steps of the reporter-worker thread
WorkerNext ==
    \/ WorkerStart
    \/ WorkerLoop
    \/ WorkerGet
    \/ WorkerGetEmpty
    \/ WorkerReport
    \/ WorkerFlushCheck
    \/ FlushEntry
    \/ WorkerCleanupCache

TypeOK ==
    /\ pc \in {"idle", "invalid", "iter", "final", "cleanup", "join",
               "stop_worker", "thread_join", "done"}
    /\ wpc \in {"off", "start", "loop", "get", "report", "flushcheck",
                "flush", "cleanup_cache", "exited"}
    /\ unfinished \in 0..MaxSeq
    /\ now \in 0..MaxTime

\* ================================================================ properties
\* the steps of the program itself (not stop() calls, not the clock)
ProgramNext == MainNext \/ WorkerNext

\* the store holds a row for payload q
Holds(rows, q) == \E r \in rows : r.payload.seq = q

HasRow(rows, id) == \E r \in rows : r.id = id
RowOf(rows, id) == CHOOSE r \in rows : r.id = id

\* report_sync has returned for q with the cache configured and the store
\* available (the add, if tried, did not fail)
ReportedWithStore(q) ==
    /\ config.cache_enabled
    /\ outcome[q] # PENDING
    /\ fate[q] # "add_failed"

\* C1 as stated: with a cache configured and its store available, every
\* payload that went through report_sync is delivered (some POST answered
\* 2xx) or still held in the store, whatever report, flush and cleanup steps
\* followed.
C1_DeliveredOrHeld ==
    \A q \in Seqs :
        ReportedWithStore(q) => (q \in delivered \/ Holds(store, q))

\* C1, amended: with a cache configured and its store available, every
\* payload that went through report_sync is delivered, or still held in the
\* store, or left the store by one of the cache's removal rules: abandoned by
\* flush_cache_sync at the retry ceiling, removed by cleanup_cache as expired
\* or as overflow, or replaced by a later add of the same batch_id.
C1_DeliveredHeldOrRemovedByRule ==
    \A q \in Seqs :
        ReportedWithStore(q) =>
            \/ q \in delivered
            \/ Holds(store, q)
            \/ fate[q] \in {"abandoned", "expired", "overflow", "replaced"}

\* C1 witness: a payload was cached by report_sync and later delivered by a
\* flush, which removed it from the store
C1_Witness ==
    \E q \in Seqs :
        /\ ReportedWithStore(q) /\ outcome[q] = CACHED
        /\ q \in delivered /\ ~Holds(store, q)

\* C2 as stated: once stop() was called on the running agent or the source
\* is exhausted, run() goes on to complete cleanup; stated as: in no such
\* state short of completion are both threads without a possible step.
C2_ShutdownTerminates ==
    (running /\ (stop_event \/ frame_count = NumFrames)) => ENABLED ProgramNext

\* every payload enqueued so far was passed to report_sync exactly once
EachHandedOnce ==
    \A i \in 1..Len(enqueued) :
        Cardinality({j \in 1..Len(handed) : handed[j].seq = i}) = 1

\* C3 as stated: when run() has returned, the report queue is empty and every
\* payload enqueued during the run was passed to report_sync exactly once,
\* before the worker was told to stop.
C3_DrainedBeforeStop ==
    pc = "done" =>
        /\ report_queue = <<>>
        /\ EachHandedOnce
        /\ \A j \in 1..Len(handed) : ~handed[j].told_to_stop

RECURSIVE Pow(_, _)
Pow(b, n) == IF n = 0 THEN 1 ELSE b * Pow(b, n - 1)

Retryable == {"5xx", "timeout", "connect_error"}

\* the sleeps before attempts 2..n: d, d*b, d*b^2, ...
BackoffDelays(n) ==
    [k \in 1..(n - 1) |-> config.retry_delay * Pow(config.retry_backoff, k - 1)]

\* C4: an attempt sequence of a connected reporter whose attempts all fail
\* with a retryable error makes exactly R+1 POSTs, sleeps R times with delays
\* d, d*b, d*b^2, ... (none after the last attempt) and yields Failed; a 2xx
\* on attempt i after retryable failures yields Success after i attempts.
C4_RetryBackoff ==
    (last_send.status # PENDING /\ last_send.connected) =>
        LET R == config.retry_max
            rs == last_send.rs
        IN /\ (\A k \in 1..(R + 1) : rs[k] \in Retryable) =>
                /\ last_send.attempts = R + 1
                /\ last_send.sleeps = BackoffDelays(R + 1)
                /\ Len(last_send.sleeps) = R
                /\ last_send.status = FAILED
           /\ \A i \in 1..(R + 1) :
                (rs[i] = "2xx" /\ \A k \in 1..(i - 1) : rs[k] \in Retryable) =>
                    /\ last_send.status = SUCCESS
                    /\ last_send.attempts = i
                    /\ last_send.sleeps = BackoffDelays(i)

\* C4 witness: three attempts all failed, two growing sleeps in between
C4_Witness ==
    /\ last_send.connected /\ last_send.status = FAILED
    /\ last_send.attempts = 3
    /\ config.retry_delay = 2 /\ config.retry_backoff = 3
    /\ last_send.sleeps = <<2, 6>>

\* C5 as stated: a payload one POST of which was answered 4xx is never POSTed
\* again and the status report_sync gives for it is Failed.
C5_NoRetryOnClientError ==
    \A q \in rejected :
        /\ q \notin resent
        /\ outcome[q] \in {PENDING, FAILED}

\* the step in which report_sync returns for the payload in the worker's hand
ReportReturns == wpc = "report" /\ wpc' # "report"

\* C6 as stated: the status report_sync returns is Success iff some attempt
\* was answered 2xx; Cached iff the retries were exhausted, a cache is
\* configured and the payload is in the store at return; Failed otherwise.
C6_ReportStatus ==
    [][ReportReturns =>
        LET q == payload.seq
            status == outcome'[q]
            success == q \in delivered'
            exhausted == q \notin delivered' /\ q \notin rejected'
            cached == exhausted /\ config.cache_enabled /\ Holds(store', q)
        IN /\ (status = SUCCESS <=> success)
           /\ (status = CACHED <=> cached)
           /\ (status = FAILED <=> (~success /\ ~cached))]_vars

\* the step in which flush_cache_sync finishes one entry
FlushStep == wpc = "flush" /\ (wpc' # "flush" \/ flush_idx' # flush_idx)

\* C7: a successful re-delivery removes the entry; a failed one adds exactly
\* 1 to the stored retry count and removes the entry iff the count then
\* exceeds 3 * retry_max; no stored count ever exceeds 3 * retry_max, so an
\* undeliverable entry is attempted by at most 3 * retry_max + 1 flushes.
C7_FlushAbandonment ==
    /\ [][FlushStep =>
            LET e == entries[flush_idx]
                before == RowOf(store, e.id).retry_count
            IN /\ HasRow(store, e.id)
               /\ IF e.payload.seq \in delivered'
                  THEN ~HasRow(store', e.id)
                  ELSE IF before + 1 > 3 * config.retry_max
                  THEN ~HasRow(store', e.id)
                  ELSE /\ HasRow(store', e.id)
                       /\ RowOf(store', e.id).retry_count = before + 1]_vars
    /\ [](\A r \in store : r.retry_count <= 3 * config.retry_max)

\* C7 witness: with retry_max = 1 an entry failed four flushes and was
\* abandoned by the fourth
C7_Witness ==
    /\ config.retry_max = 1
    /\ \E q \in Seqs : fate[q] = "abandoned" /\ ~Holds(store, q)

\* a step that takes no frame from the source and enqueues a payload
EnqueueWithoutFrame ==
    /\ \/ Run \/ FinalFlush \/ CleanupCheck \/ QueueJoin \/ CleanupStop
       \/ ThreadJoin \/ Stop \/ Tick \/ WorkerNext
    /\ Len(enqueued') > Len(enqueued)

\* C8 as stated: while the agent is running with a non-empty buffer and
\* batch_interval has elapsed since the last flush, the buffer is enqueued
\* even if the source yields nothing: some step other than the source's
\* enqueues a payload.
C8_TimeTriggeredFlush ==
    (/\ running /\ pc = "iter" /\ ~stop_event
     /\ results_buffer # <<>>
     /\ now - last_report_time >= BatchInterval) => ENABLED EnqueueWithoutFrame

\* with batch_size >= 1 the buffer is shorter than batch_size whenever the
\* loop is about to take a frame, and a size-triggered payload has exactly
\* batch_size results
SizeTrigger ==
    /\ (pc = "iter" => Len(results_buffer) < config.batch_size)
    /\ \A i \in 1..Len(enqueued) :
        enqueued[i].why = "size" =>
            Len(enqueued[i].payload.results) = config.batch_size

\* the loop is about to take frame batch_size + 1, nothing was dropped
AtFrameAfterBatch ==
    /\ ~config.report_only_detections
    /\ pc = "iter" /\ frame_count = config.batch_size

\* C9 as stated: with batch_size = B >= 1 the buffer holds fewer than B
\* results whenever the loop starts a frame, the B-th appended result makes a
\* payload of exactly B results, and with report_only_detections = false the
\* (B+1)-th frame finds the buffer empty.
C9_SizeTriggeredFlush ==
    config.batch_size >= 1 =>
        /\ SizeTrigger
        /\ (AtFrameAfterBatch => results_buffer = <<>>)

\* C9, amended: as C9, but the (B+1)-th frame finds the buffer empty provided
\* no time-triggered flush happened during the first B frames.
C9_SizeTriggeredFlushNoTimeFlush ==
    config.batch_size >= 1 =>
        /\ SizeTrigger
        /\ (/\ AtFrameAfterBatch
            /\ \A i \in 1..Len(enqueued) : enqueued[i].why # "time")
           => results_buffer = <<>>

\* C9 witness: batch_size = 2, two frames kept, one payload of two results
\* enqueued by the size trigger, the buffer empty before the third frame
C9_Witness ==
    /\ config.batch_size = 2 /\ AtFrameAfterBatch
    /\ Len(enqueued) = 1 /\ enqueued[1].why = "size"
    /\ Len(enqueued[1].payload.results) = 2
    /\ results_buffer = <<>>

\* the results of the enqueued payloads, in order
RECURSIVE AllResults(_)
AllResults(ps) ==
    IF ps = <<>> THEN <<>>
    ELSE Head(ps).payload.results \o AllResults(Tail(ps))

\* the main loop was left without an exception and the final flush is done
LoopExited ==
    /\ pc \in {"cleanup", "join", "stop_worker", "thread_join", "done"}
    /\ ~raised

\* C10: after the loop ended by exhaustion or stop, every kept result is in
\* exactly one enqueued payload, the payloads' results in order are the kept
\* results in capture order, and what remained in the buffer was enqueued as
\* the final payload.
C10_NothingLostByBatching ==
    LoopExited =>
        /\ AllResults(enqueued) = kept
        /\ \A k \in 1..Len(kept) :
            Cardinality({i \in 1..Len(enqueued) :
                            kept[k] \in Range(enqueued[i].payload.results)}) = 1
        /\ results_buffer # <<>> =>
            /\ enqueued # <<>>
            /\ enqueued[Len(enqueued)].why = "final"
            /\ enqueued[Len(enqueued)].payload.results = results_buffer

\* C10 witness: one payload left by the time trigger, the second result left
\* as the final payload, the run ended normally
C10_Witness ==
    /\ pc = "done" /\ ~raised
    /\ Len(kept) = 2 /\ Len(enqueued) = 2
    /\ enqueued[1].why = "time" /\ enqueued[2].why = "final"

\* C11: the worker passes payloads to report_sync in the order the main loop
\* enqueued them, and takes the next one only after report_sync returned for
\* the one before (its attempts and its caching are done by then).
C11_FifoReporting ==
    /\ Len(handed) <= Len(enqueued)
    /\ \A j \in 1..Len(handed) : handed[j].seq = enqueued[j].payload.seq
    /\ \A j \in 1..(Len(handed) - 1) : outcome[handed[j].seq] # PENDING
    /\ payload # NoPayload =>
        /\ handed # <<>>
        /\ payload.seq = handed[Len(handed)].seq
        /\ wpc = "report"

\* C11 witness: two payloads were enqueued and both handed over, the first
\* one reported before the second was taken
C11_Witness ==
    /\ Len(enqueued) = 2 /\ Len(handed) = 2
    /\ outcome[1] # PENDING /\ outcome[2] = PENDING
    /\ wpc = "report"

\* C15 as stated: any two distinct payloads the agent created have different
\* batch ids, also when one flush follows another at once.
C15_BatchIdsUnique ==
    \A i, j \in 1..Len(enqueued) :
        i # j => enqueued[i].payload.batch_id # enqueued[j].payload.batch_id

\* a step that changes the stop flag and leaves run() where it is
FlagOnlyStep == stop_event' # stop_event /\ pc' = pc

\* C19: stop() on the running agent sets the stop flag and touches nothing
\* else (no thread is ended by it); a further stop() changes nothing, and
\* stop() on the idle agent changes nothing.
C19_StopIdempotent ==
    /\ [][FlagOnlyStep =>
            /\ running /\ stop_event'
            /\ UNCHANGED <<unitVars, config, now, pc, running, frame_count,
                           results_buffer, last_report_time, report_queue,
                           unfinished, stats, raised, workerVars,
                           reporterVars, historyVars>>]_vars
    /\ []((stop_event \/ ~running) => ~ENABLED (Stop /\ vars' # vars))

\* C19 witness: stop() was called during the run, both threads are still
\* where the code left them
C19_Witness ==
    /\ running /\ stop_event /\ pc = "iter"
    /\ wpc \in {"get", "report", "flush"}

\* C20: with a configuration validate() rejects, run() raises and nothing
\* is started: not running, no worker, reporter not connected, no frame read,
\* nothing enqueued.
C20_FailFast ==
    Validate(config) # {} =>
        /\ pc \in {"idle", "invalid"}
        /\ (pc = "invalid" => raised)
        /\ ~running /\ ~stop_event
        /\ wpc = "off" /\ ~is_connected /\ ~cache_open
        /\ frame_count = 0 /\ results_buffer = <<>>
        /\ report_queue = <<>> /\ enqueued = <<>>

\* C20 witness: run() was called with a negative retry_max and raised
C20_Witness ==
    /\ pc = "invalid" /\ raised /\ ~running
    /\ "retry_max" \in Validate(config)

\* the rows were added at pairwise different times
DistinctTimes(rows) ==
    \A a, b \in rows : a # b => a.created_at # b.created_at

Min(a, b) == IF a <= b THEN a ELSE b

\* C12: for rows added at strictly increasing times get_pending(limit) on an
\* open cache returns min(limit, count()) rows, oldest first, none of the rows
\* left out older than a returned one, and leaves the store as it was.
C12_GetPendingOldestFirst ==
    (/\ cache_call.op = "get_pending" /\ cache_call.open
     /\ DistinctTimes(cache_call.before)) =>
        LET res == cache_call.result
        IN /\ Len(res) = Min(cache_call.limit, Cardinality(cache_call.before))
           /\ Range(res) \subseteq cache_call.before
           /\ \A i, j \in 1..Len(res) :
                i < j => res[i].created_at < res[j].created_at
           /\ \A x \in Range(res), r \in cache_call.before \ Range(res) :
                x.created_at < r.created_at
           /\ cache_call.after = cache_call.before
           /\ store = cache_call.before

\* C12 witness: three rows added at three different times, get_pending(2)
\* returned two of them
C12_Witness ==
    /\ cache_call.op = "get_pending" /\ cache_call.open
    /\ DistinctTimes(cache_call.before)
    /\ Cardinality(cache_call.before) = 3
    /\ cache_call.limit = 2 /\ Len(cache_call.result) = 2

\* C13: cleanup_overflow() on an open cache holding M + k rows (M =
\* max_entries) removes exactly k rows, none of them newer than a row it
\* keeps, returns k and leaves M rows; with at most M rows it removes nothing
\* and returns 0.
C13_OverflowEviction ==
    (cache_call.op = "cleanup_overflow" /\ cache_call.open) =>
        LET before == cache_call.before
            after == cache_call.after
            count == Cardinality(before)
            k == IF count > MaxEntries THEN count - MaxEntries ELSE 0
        IN /\ after \subseteq before
           /\ Cardinality(before \ after) = k
           /\ cache_call.result = k
           /\ \A r \in before \ after, x \in after :
                r.created_at <= x.created_at
           /\ count > MaxEntries => Cardinality(after) = MaxEntries
           /\ count <= MaxEntries => (after = before /\ cache_call.result = 0)
           /\ store = after

\* C13 witness: two rows more than max_entries, added at different times,
\* were cut down to max_entries
C13_Witness ==
    /\ cache_call.op = "cleanup_overflow" /\ cache_call.open
    /\ DistinctTimes(cache_call.before)
    /\ Cardinality(cache_call.before) = MaxEntries + 2
    /\ cache_call.result = 2
    /\ Cardinality(store) = MaxEntries

\* the row of batch id b
RowOfBatch(rows, b) == CHOOSE r \in rows : r.batch_id = b

\* C14: the store never holds two rows of one batch id; add() of a stored
\* batch id replaces that row (count unchanged; payload, retry count and
\* creation time are those of the new add) and add() of a new batch id makes
\* the count one larger; the other rows stay.
C14_Upsert ==
    /\ \A a, b \in store : a.batch_id = b.batch_id => a = b
    /\ (cache_call.op = "add" /\ cache_call.open) =>
        LET p == cache_call.payload
            before == cache_call.before
            after == cache_call.after
            old == {r \in before : r.batch_id = p.batch_id}
            new == RowOfBatch(after, p.batch_id)
        IN /\ \E r \in after : r.batch_id = p.batch_id
           /\ new.payload = p
           /\ new.retry_count = p.retry_count
           /\ new.created_at = cache_call.at
           /\ after \ {new} = before \ old
           /\ IF old # {}
              THEN Cardinality(after) = Cardinality(before)
              ELSE Cardinality(after) = Cardinality(before) + 1

\* C14 witness: a payload was added under a batch id that was stored with
\* another payload, another retry count and an earlier creation time
C14_Witness ==
    /\ cache_call.op = "add" /\ cache_call.open
    /\ \E r \in cache_call.before :
        /\ r.batch_id = cache_call.payload.batch_id
        /\ r.payload # cache_call.payload
        /\ r.retry_count # cache_call.payload.retry_count
        /\ r.created_at < cache_call.at
    /\ Cardinality(cache_call.after) = 2
    /\ Cardinality(cache_call.before) = 2

\* the indices of the readable images of a folder, in order
RECURSIVE ReadableFrom(_, _)
ReadableFrom(files, idx) ==
    IF idx >= Len(files) THEN <<>>
    ELSE IF files[idx + 1] THEN <<idx>> \o ReadableFrom(files, idx + 1)
    ELSE ReadableFrom(files, idx + 1)

Readable == ReadableFrom(source.files, 0)

\* C17: without loop, the iteration over F readable frames with skip_frames
\* = N has yielded, when it ends, exactly the frames at positions 1, 1+(N+1),
\* 1+2(N+1), ... in order, ceil(F/(N+1)) of them; with N = 0 these are all
\* frames, each once.
C17_SkipFrames ==
    (source.state = "ended" /\ ~source.loop) =>
        LET N == source.skip_frames
            F == Len(Readable)
            expected == (F + N) \div (N + 1)
        IN /\ Len(source.yielded) = expected
           /\ \A k \in 1..expected :
                source.yielded[k] = Readable[1 + (k - 1) * (N + 1)]

\* C17 witness: three readable frames, skip_frames = 1, the first and the
\* third were yielded
C17_Witness ==
    /\ source.state = "ended" /\ ~source.loop
    /\ source.skip_frames = 1 /\ Len(Readable) = 3
    /\ Len(source.yielded) = 2

\* C18: a folder of n >= 1 readable images read without skipping: with loop
\* the frames yielded so far are the images in cyclic order 0, .., n-1, 0, ..,
\* the iteration has not ended and the source is open; without loop at most
\* n frames are yielded and at the end each image was yielded once, in order.
C18_LoopRestart ==
    (/\ source.state \in {"open", "ended"}
     /\ source.skip_frames = 0 /\ Len(Readable) >= 1) =>
        LET n == Len(Readable) IN
        IF source.loop
        THEN /\ source.state = "open" /\ source.is_open
             /\ \A k \in 1..Len(source.yielded) :
                    source.yielded[k] = Readable[((k - 1) % n) + 1]
        ELSE /\ Len(source.yielded) <= n
             /\ source.state = "ended" => source.yielded = Readable

\* C18 witness: a folder of three readable images was read twice over
C18_Witness ==
    /\ source.state = "open" /\ source.loop /\ source.skip_frames = 0
    /\ source.files = <<TRUE, TRUE, TRUE>>
    /\ source.yielded = <<0, 1, 2, 0, 1, 2>>

\* the value the precedence rule gives key k: the environment variable's when
\* it is set (to a non-empty value), else the file's, else the default
ByPrecedence(k) ==
    IF k \in EnvKeys /\ loaded.env[k] \notin {Unset, Empty} THEN loaded.env[k]
    ELSE IF loaded.file[k] # Unset THEN loaded.file[k]
    ELSE DefaultOf(k)

\* C16 as stated: for every key, load(file) yields the environment
\* variable's value when it is set, otherwise the file's value when the file
\* sets the key, otherwise the default.
C16_ConfigPrecedence ==
    loaded.done => \A k \in ConfigKeys : loaded.result[k] = ByPrecedence(k)

\* ---------------------------------------------------------------- C22
\* the step in which the main loop processed a frame without detections
ZeroDetectionFrame ==
    /\ stats'.frames_processed = stats.frames_processed + 1
    /\ stats'.detections_total = stats.detections_total

\* the results that left the buffer in this step, if a payload was enqueued
NewlyEnqueued ==
    IF Len(enqueued') > Len(enqueued)
    THEN enqueued'[Len(enqueued')].payload.results ELSE <<>>

\* C22: with report_only_detections a frame without detections is counted in
\* frames_processed but is placed neither in the buffer nor in a payload, so
\* every buffered, kept or enqueued result has a detection; and in a run that
\* processed every frame, where only the first frame had a detection and
\* batch_size exceeds the number of frames, exactly one payload was enqueued,
\* it holds exactly that one result, and detections_total is 1.
C22_ReportOnlyDetections ==
    /\ [][(ZeroDetectionFrame /\ config.report_only_detections) =>
            /\ kept' = kept
            /\ results_buffer' \in {results_buffer, <<>>}
            /\ NewlyEnqueued \in {results_buffer, <<>>}
            /\ \A i \in 1..Len(NewlyEnqueued) :
                 NewlyEnqueued[i].frame_id # frame_count']_vars
    /\ [](config.report_only_detections =>
            /\ \A k \in 1..Len(kept) : kept[k].dets >= 1
            /\ \A k \in 1..Len(results_buffer) : results_buffer[k].dets >= 1
            /\ \A i \in 1..Len(enqueued) :
                 \A k \in 1..Len(enqueued[i].payload.results) :
                     enqueued[i].payload.results[k].dets >= 1
            /\ stats.frames_processed >= Len(kept))
    /\ []((/\ config.report_only_detections
           /\ LoopExited
           /\ config.batch_size > NumFrames - 1
           /\ stats.frames_processed = NumFrames
           /\ stats.detections_total = 1
           /\ kept = <<[frame_id |-> 1, dets |-> 1]>>) =>
            /\ Len(enqueued) = 1
            /\ enqueued[1].payload.results = kept)

\* C22 witness: every frame was processed, only the first had a detection,
\* the later one was counted and dropped, one payload was enqueued
C22_Witness ==
    /\ config.report_only_detections /\ config.batch_size = MaxBatch
    /\ pc = "done" /\ ~raised
    /\ stats.frames_processed = NumFrames /\ stats.detections_total = 1
    /\ kept = <<[frame_id |-> 1, dets |-> 1]>>
    /\ Len(enqueued) = 1

\* ---------------------------------------------------------------- C30
\* C30 as stated: under a configuration accepted by validate(), every
\* enqueued payload contains at least one and at most batch_size results.
C30_PayloadSizeBounds ==
    \A i \in 1..Len(enqueued) :
        /\ Validate(config) = {}
        /\ Len(enqueued[i].payload.results) >= 1
        /\ Len(enqueued[i].payload.results) <= config.batch_size

\* ---------------------------------------------------------------- C24
\* C24 as stated: once the stop flag is set, flush_cache_sync starts no
\* re-delivery attempt sequence for the remaining entries of the flush in
\* progress.
C24_FlushStopsOnCancel ==
    [][(FlushStep /\ flush_idx > 1) => ~stop_event]_vars

\* ---------------------------------------------------------------- C25
\* the main loop is at the top of "for frame in source"
AtLoop == pc = "iter" /\ frame_count < NumFrames

\* C25: whatever the worker is doing and however many payloads wait in the
\* queue, the main loop can take and process its next frame (put never
\* blocks); the loop is left only on exhaustion, on the stop flag or on an
\* inference error; and a step that records a delivery outcome changes
\* neither the main loop's position nor the raised exception.
C25_AcquisitionNotBlocked ==
    /\ [](AtLoop => ENABLED LoopBody)
    /\ [][(pc = "iter" /\ pc' # "iter") =>
            \/ frame_count = NumFrames
            \/ stop_event
            \/ (raised' /\ frame_count' = frame_count + 1)]_vars
    /\ [][outcome' # outcome => (pc' = pc /\ raised' = raised)]_vars

\* C25 witness: the report of the first payload ended Failed or Cached and
\* the main loop, still running, is ready for its next frame
C25_Witness ==
    /\ AtLoop /\ ~raised /\ ~stop_event
    /\ outcome[1] \in {FAILED, CACHED}

\* ---------------------------------------------------------------- C26
\* the worker is between its loop test and the end of the flush
InWorkerPass == wpc \in {"get", "report", "flushcheck", "flush", "cleanup_cache"}

\* C26: every queue poll, empty or not, is followed by the flush check; when
\* flush_interval has elapsed since the previous flush the check starts the
\* flush (flush_cache_sync, then cleanup_cache, then last_flush_time is
\* advanced), otherwise the worker returns to its loop test; and the worker
\* is never blocked on the way.
C26_PeriodicFlush ==
    /\ [][(wpc = "get" /\ wpc' # "get" /\ report_queue = <<>>) =>
            wpc' = "flushcheck"]_vars
    /\ [][(wpc = "report" /\ wpc' # "report") => wpc' = "flushcheck"]_vars
    /\ [][(wpc = "flushcheck" /\ wpc' # "flushcheck") =>
            IF now - last_flush_time >= config.flush_interval
            THEN wpc' \in {"flush", "cleanup_cache"} /\ current_time' = now
            ELSE wpc' = "loop"]_vars
    /\ [][(wpc = "flush" /\ wpc' # "flush") => wpc' = "cleanup_cache"]_vars
    /\ [][(wpc = "cleanup_cache" /\ wpc' # "cleanup_cache") =>
            wpc' = "loop" /\ last_flush_time' = current_time]_vars
    /\ [](InWorkerPass => ENABLED WorkerNext)

\* C26 witness: nothing was ever enqueued, the interval elapsed, and the
\* worker is in the flush that followed its empty poll
C26_Witness ==
    /\ enqueued = <<>> /\ config.flush_interval = MaxFlushInterval
    /\ now - last_flush_time >= config.flush_interval
    /\ wpc = "cleanup_cache" /\ current_time = now

\* ---------------------------------------------------------------- C29
\* every payload enqueued so far was taken by the worker
AllHanded ==
    \A i \in 1..Len(enqueued) : \E j \in 1..Len(handed) : handed[j].seq = i

\* C29 as stated: after _run_inference raised, the failed frame is not
\* counted, and run() either has re-raised with cleanup complete (is_running
\* false, worker told to stop, every enqueued payload handed to the
\* reporter) or is still on its way there.
C29_InferenceFailureAborts ==
    (raised /\ pc # "invalid") =>
        /\ stats.frames_processed = frame_count - 1
        /\ IF pc = "done"
           THEN ~running /\ stop_event /\ AllHanded
           ELSE ENABLED ProgramNext

\* ---------------------------------------------------------------- C21
\* C21: for every Source variant and for the CacheManager, close() never
\* raises, whether the instance was never opened, failed to open, is open or
\* is already closed; after it is_open is false and no resource is held; and
\* closing twice leaves the instance as closing once did.
C21_IdempotentClose ==
    /\ ~source.close_raised
    /\ source.last = "close" =>
        ~source.is_open /\ ~source.held /\ ~source.is_streaming
    /\ LET once == CloseComponent(source)
           twice == CloseComponent(once)
       IN /\ ~twice.close_raised /\ ~twice.is_open /\ ~twice.held
          /\ [twice EXCEPT !.closes = 0] = [once EXCEPT !.closes = 0]

\* C21 witness: close() was called twice on an instance that was never opened
C21_Witness ==
    /\ source.opens = 0 /\ source.closes = 2 /\ source.last = "close"
    /\ ~source.is_open /\ ~source.held

\* C21 witness for an instance that was opened and used before the two closes
C21_WitnessOpened ==
    /\ source.opens > 0 /\ source.reads > 0 /\ source.closes = 2
    /\ source.last = "close"

\* ---------------------------------------------------------------- C23
\* the fields of a payload that go over the wire
WireFields(p) ==
    [device_id |-> p.device_id, batch_id |-> p.batch_id,
     report_time |-> p.report_time,
     results |-> [i \in 1..Len(p.results) |->
                    [frame_id |-> p.results[i].frame_id,
                     source_id |-> p.results[i].source_id,
                     detections |-> p.results[i].detections]]]

\* C23: the payload rebuilt from to_dict() as _row_to_entry does it, and the
\* payload of the entry that get() returns for the id add() gave, have the
\* device_id, batch_id, report_time and, per result, the frame_id, source_id
\* and detections (label, confidence, bbox) of the payload written.
C23_PayloadRoundTrip ==
    /\ WireFields(RowToEntry(WireRow(0, payload, now)).payload)
            = WireFields(payload)
    /\ (cache_call.op = "get" /\ cache_call.found) =>
            WireFields(cache_call.entry.payload) = WireFields(payload)

\* C23 witness: get() returned the entry of a payload with a batch_id of the
\* caller's, a detection, integer metadata keys and a retry count; the
\* rebuilt payload is not the object written (retry count and metadata keys
\* differ)
C23_Witness ==
    /\ cache_call.op = "get" /\ cache_call.found
    /\ payload.batch_id = <<"given", 7>> /\ payload.retry_count = 1
    /\ Len(payload.results) = 1
    /\ Len(payload.results[1].detections) = 1
    /\ payload.results[1].metadata.keys = "int"
    /\ cache_call.entry.payload # payload

\* ---------------------------------------------------------------- C27
\* C27 as stated: when read_frame returns None and the source loops, the
\* read/reset cycle does not go on without a frame: the read that follows the
\* reset gives a frame (which, counted 1, is yielded).
C27_NoSilentLoop ==
    (/\ source.state = "open" /\ source.loop
     /\ ReadFrame(source.files, source.current_index).frame = -1) =>
        LET rewound == FolderReset(source)
        IN /\ ReadFrame(rewound.files, rewound.current_index).frame # -1
           /\ KeepFrame(rewound.frame_count + 1, rewound.skip_frames)

\* ---------------------------------------------------------------- C28
\* C28 as stated: with adds and removes of another thread interleaved, a
\* finished cleanup_overflow leaves at least min(max_entries, number of
\* entries present) entries.
C28_OverflowAtomic ==
    cache_call.op = "cleanup_overflow" =>
        Cardinality(cache_call.after)
            >= Min(MaxEntries, Cardinality(cache_call.present))

====
